---- MODULE Spec2Model ----
(***************************************************************************)
(* PostsDisplay (gg_posts.js): a paginated list of posts rendered into a   *)
(* container element.  The page state lives in the URL query parameters    *)
(* posts_per_page and posts_pages_from_end; following a generated link is  *)
(* a page reload that runs create() again on the new URL.                  *)
(*                                                                         *)
(* Strings are sequences of one-character strings, so that parseInt,       *)
(* number-to-string conversion and URLSearchParams serialisation/parsing   *)
(* are modelled by what they do.  A JavaScript number is a record          *)
(* [nan, v]: either NaN or the integer v.                                  *)
(***************************************************************************)
EXTENDS Integers, Sequences, FiniteSets, TLC

\* ------------------------------------------------------------------ bounds
\* Largest number of posts in the JSON document.
MaxPosts == 6

\* ------------------------------------------------------- JavaScript numbers
NaN == [nan |-> TRUE, v |-> 0]

N(i) == [nan |-> FALSE, v |-> i]

\* a - b
JsSub(a, b) == IF a.nan \/ b.nan THEN NaN ELSE N(a.v - b.v)

\* a + b (both numbers)
JsAdd(a, b) == IF a.nan \/ b.nan THEN NaN ELSE N(a.v + b.v)

\* a * b
JsMul(a, b) == IF a.nan \/ b.nan THEN NaN ELSE N(a.v * b.v)

\* a > b and a < b: false whenever an operand is NaN
JsGt(a, b) == ~a.nan /\ ~b.nan /\ a.v > b.v

JsLt(a, b) == ~a.nan /\ ~b.nan /\ a.v < b.v

\* a === b on numbers: NaN is not equal to itself
StrictEq(a, b) == ~a.nan /\ ~b.nan /\ a.v = b.v

\* !x on a number: true for 0 and NaN
Not(x) == x.nan \/ x.v = 0

\* Math.max(a, b) and Math.min(a, b): NaN if either operand is NaN
MathMax(a, b) == IF a.nan \/ b.nan THEN NaN ELSE IF a.v >= b.v THEN a ELSE b

MathMin(a, b) == IF a.nan \/ b.nan THEN NaN ELSE IF a.v <= b.v THEN a ELSE b

\* ------------------------------------------------------------------ strings
DecDigits == <<"0", "1", "2", "3", "4", "5", "6", "7", "8", "9">>

HexLower == DecDigits \o <<"a", "b", "c", "d", "e", "f">>

HexUpper == DecDigits \o <<"A", "B", "C", "D", "E", "F">>

IsDigit(c, radix) ==
  \E i \in 1..radix : HexLower[i] = c \/ HexUpper[i] = c

DigitVal(c) ==
  (CHOOSE i \in 1..16 : HexLower[i] = c \/ HexUpper[i] = c) - 1

Tail2(s) == SubSeq(s, 3, Len(s))

RECURSIVE SkipSpaces(_)
SkipSpaces(s) ==
  IF s # <<>> /\ Head(s) = " " THEN SkipSpaces(Tail(s)) ELSE s

\* The value of the longest prefix of s made of digits of the radix, read
\* left to right starting from acc; seen tells whether a digit was read.
RECURSIVE ParseDigits(_, _, _, _)
ParseDigits(s, radix, acc, seen) ==
  IF s # <<>> /\ IsDigit(Head(s), radix)
  THEN ParseDigits(Tail(s), radix, acc * radix + DigitVal(Head(s)), TRUE)
  ELSE IF seen THEN N(acc) ELSE NaN

\* parseInt(string) with no radix argument: leading white space skipped, an
\* optional sign, an optional 0x/0X prefix, then the longest digit prefix;
\* NaN when there is no digit.
ParseInt(str) ==
  LET s0 == SkipSpaces(str)
      neg == s0 # <<>> /\ Head(s0) = "-"
      s1 == IF s0 # <<>> /\ Head(s0) \in {"-", "+"} THEN Tail(s0) ELSE s0
      hex == Len(s1) >= 2 /\ s1[1] = "0" /\ s1[2] \in {"x", "X"}
      s2 == IF hex THEN Tail2(s1) ELSE s1
      r == ParseDigits(s2, IF hex THEN 16 ELSE 10, 0, FALSE)
  IN IF r.nan THEN NaN ELSE IF neg THEN N(0 - r.v) ELSE r

RECURSIVE NatToStr(_)
NatToStr(n) ==
  IF n < 10 THEN <<DecDigits[n + 1]>>
  ELSE NatToStr(n \div 10) \o <<DecDigits[(n % 10) + 1]>>

\* String(number): what parseInt and URLSearchParams.set see of a number.
NumToStr(x) ==
  IF x.nan THEN <<"N", "a", "N">>
  ELSE IF x.v < 0 THEN <<"-">> \o NatToStr(0 - x.v)
  ELSE NatToStr(x.v)

\* First position of character c in s, or 0.
RECURSIVE IndexFrom(_, _, _)
IndexFrom(s, c, i) ==
  IF i > Len(s) THEN 0 ELSE IF s[i] = c THEN i ELSE IndexFrom(s, c, i + 1)

IndexOf(s, c) == IndexFrom(s, c, 1)

\* s.replace(/c.*/, ""): s up to, not including, the first c.
StripFrom(s, c) ==
  IF IndexOf(s, c) = 0 THEN s ELSE SubSeq(s, 1, IndexOf(s, c) - 1)

\* The pieces of s between occurrences of sep.
RECURSIVE Split(_, _)
Split(s, sep) ==
  IF IndexOf(s, sep) = 0 THEN <<s>>
  ELSE <<SubSeq(s, 1, IndexOf(s, sep) - 1)>>
       \o Split(SubSeq(s, IndexOf(s, sep) + 1, Len(s)), sep)

\* ---------------------------------------------------------- URLSearchParams
\* A URLSearchParams object is its list of name/value pairs [k, v].

\* application/x-www-form-urlencoded: the characters percent-encoded by the
\* serialiser, each with the two hex digits of its code.
PercentTable ==
  << <<"&", "2", "6">>, <<"=", "3", "D">>, <<"+", "2", "B">>,
     <<"%", "2", "5">>, <<"#", "2", "3">>, <<"?", "3", "F">> >>

EncodeChar(c) ==
  IF c = " " THEN <<"+">>
  ELSE IF \E i \in 1..Len(PercentTable) : PercentTable[i][1] = c
  THEN LET row == PercentTable[CHOOSE i \in 1..Len(PercentTable) :
                                 PercentTable[i][1] = c]
       IN <<"%", row[2], row[3]>>
  ELSE <<c>>

RECURSIVE UrlEncode(_)
UrlEncode(s) ==
  IF s = <<>> THEN <<>> ELSE EncodeChar(Head(s)) \o UrlEncode(Tail(s))

\* Does s start with a percent escape of the table?
IsEscape(s) ==
  /\ Len(s) >= 3
  /\ s[1] = "%"
  /\ \E i \in 1..Len(PercentTable) :
       PercentTable[i][2] = s[2] /\ PercentTable[i][3] = s[3]

Unescape(s) ==
  PercentTable[CHOOSE i \in 1..Len(PercentTable) :
                 PercentTable[i][2] = s[2] /\ PercentTable[i][3] = s[3]][1]

RECURSIVE UrlDecode(_)
UrlDecode(s) ==
  IF s = <<>> THEN <<>>
  ELSE IF Head(s) = "+" THEN <<" ">> \o UrlDecode(Tail(s))
  ELSE IF IsEscape(s) THEN <<Unescape(s)>> \o UrlDecode(SubSeq(s, 4, Len(s)))
  ELSE <<Head(s)>> \o UrlDecode(Tail(s))

\* One name=value piece of a query string, split at its first "=".
ParsePair(piece) ==
  IF IndexOf(piece, "=") = 0
  THEN [k |-> UrlDecode(piece), v |-> <<>>]
  ELSE [k |-> UrlDecode(SubSeq(piece, 1, IndexOf(piece, "=") - 1)),
        v |-> UrlDecode(SubSeq(piece, IndexOf(piece, "=") + 1, Len(piece)))]

RECURSIVE ParsePieces(_)
ParsePieces(pieces) ==
  IF pieces = <<>> THEN <<>>
  ELSE IF Head(pieces) = <<>> THEN ParsePieces(Tail(pieces))
  ELSE <<ParsePair(Head(pieces))>> \o ParsePieces(Tail(pieces))

\* new URLSearchParams(location.search): a leading "?" is dropped, the rest
\* split at "&", empty pieces skipped, names and values decoded.
NewURLSearchParams(search) ==
  ParsePieces(Split(IF search # <<>> /\ Head(search) = "?"
                    THEN Tail(search) ELSE search, "&"))

\* params.toString()
RECURSIVE ParamsToString(_)
ParamsToString(ps) ==
  IF ps = <<>> THEN <<>>
  ELSE UrlEncode(Head(ps).k) \o <<"=">> \o UrlEncode(Head(ps).v)
       \o (IF Len(ps) > 1 THEN <<"&">> ELSE <<>>)
       \o ParamsToString(Tail(ps))

ParamsHas(ps, key) == \E i \in 1..Len(ps) : ps[i].k = key

\* params.get(key): the first value of the name; found is FALSE for null.
ParamsGet(ps, key) ==
  IF ParamsHas(ps, key)
  THEN [found |-> TRUE,
        value |-> ps[CHOOSE i \in 1..Len(ps) :
                       ps[i].k = key /\ \A j \in 1..(i - 1) : ps[j].k # key].v]
  ELSE [found |-> FALSE, value |-> <<>>]

RECURSIVE DropKey(_, _)
DropKey(ps, key) ==
  IF ps = <<>> THEN <<>>
  ELSE IF Head(ps).k = key THEN DropKey(Tail(ps), key)
  ELSE <<Head(ps)>> \o DropKey(Tail(ps), key)

\* params.set(key, value): the first pair of that name takes the value and
\* the later ones are removed; appended when the name is new.
ParamsSet(ps, key, value) ==
  IF ~ParamsHas(ps, key) THEN Append(ps, [k |-> key, v |-> value])
  ELSE LET i == CHOOSE i \in 1..Len(ps) :
                  ps[i].k = key /\ \A j \in 1..(i - 1) : ps[j].k # key
       IN SubSeq(ps, 1, i - 1) \o <<[k |-> key, v |-> value]>>
          \o DropKey(SubSeq(ps, i + 1, Len(ps)), key)

\* got || dflt, for the result of params.get: null and "" are falsy.
OrElse(got, dflt) ==
  IF got.found /\ got.value # <<>> THEN got.value ELSE dflt

\* ------------------------------------------------------------------ location
\* location.search: the query of the URL with its "?", empty when the URL
\* has no query or an empty one.
LocationSearch(url) ==
  LET noFrag == StripFrom(url, "#")
      q == IndexOf(noFrag, "?")
  IN IF q = 0 \/ q = Len(noFrag) THEN <<>> ELSE SubSeq(noFrag, q, Len(noFrag))

\* location.href.replace(/#.*/, "").replace(/\?.*/, "")
IndexBaseUrl(url) == StripFrom(StripFrom(url, "#"), "?")

\* -------------------------------------------------------------- PostsDisplay
PostsPerPageKey ==
  <<"p", "o", "s", "t", "s", "_", "p", "e", "r", "_", "p", "a", "g", "e">>

PostsPagesFromEndKey ==
  <<"p", "o", "s", "t", "s", "_", "p", "a", "g", "e", "s", "_",
    "f", "r", "o", "m", "_", "e", "n", "d">>

PrevLabel == <<"P", "r", "e", "v">>

NextLabel == <<"N", "e", "x", "t">>

\* The default of posts_per_page.
DefaultPerPage == 20

\* this.perPage = parseInt(urlParams.get("posts_per_page") || 20)
PerPageOf(urlParams) ==
  ParseInt(OrElse(ParamsGet(urlParams, PostsPerPageKey),
                  NumToStr(N(DefaultPerPage))))

\* String(Math.ceil(len / perPage)): the quotient is NaN for a NaN divisor
\* and for 0/0, Infinity for len/0, and otherwise rounded towards +infinity
\* (a negative zero prints as "0").
CeilDivStr(len, perPage) ==
  IF perPage.nan THEN <<"N", "a", "N">>
  ELSE IF perPage.v = 0
  THEN IF len = 0 THEN <<"N", "a", "N">>
       ELSE <<"I", "n", "f", "i", "n", "i", "t", "y">>
  ELSE IF perPage.v > 0
  THEN NumToStr(N((len + perPage.v - 1) \div perPage.v))
  ELSE NumToStr(N(0 - (len \div (0 - perPage.v))))

\* this.numPages = parseInt(Math.ceil(this.posts.length / this.perPage))
NumPagesOf(len, perPage) == ParseInt(CeilDivStr(len, perPage))

\* const defaultPagesFromEnd = Math.max(0, this.numPages - 1)
DefaultPagesFromEnd(numPages) == MathMax(N(0), JsSub(numPages, N(1)))

\* this.pagesFromEnd = Math.min(defaultPagesFromEnd,
\*   parseInt(urlParams.get("posts_pages_from_end") || defaultPagesFromEnd))
PagesFromEndOf(urlParams, numPages) ==
  MathMin(DefaultPagesFromEnd(numPages),
          ParseInt(OrElse(ParamsGet(urlParams, PostsPagesFromEndKey),
                          NumToStr(DefaultPagesFromEnd(numPages)))))

\* The fields the constructor sets, for posts and urlParams on a page at url.
NewPostsDisplay(thePosts, urlParams, url) ==
  [indexBaseUrl |-> IndexBaseUrl(url),
   posts |-> thePosts,
   urlParams |-> urlParams,
   perPage |-> PerPageOf(urlParams),
   numPages |-> NumPagesOf(Len(thePosts), PerPageOf(urlParams)),
   pagesFromEnd |->
     PagesFromEndOf(urlParams, NumPagesOf(Len(thePosts), PerPageOf(urlParams)))]

\* LinkParams as it would be if the link's parameters were built afresh
\* instead of copied from this.urlParams.
LinkParamsFresh(urlParams, newPagesFromEnd) ==
  <<[k |-> PostsPagesFromEndKey, v |-> NumToStr(newPagesFromEnd)]>>

\* The URLSearchParams of a generated link: a copy of this.urlParams with
\* posts_pages_from_end set.
LinkParams(urlParams, newPagesFromEnd) ==
  ParamsSet(urlParams, PostsPagesFromEndKey, NumToStr(newPagesFromEnd))

\* Is the element for `page` the bare label (the current page)?
IsCurrent(this, page) ==
  StrictEq(JsSub(this.numPages, N(page)), this.pagesFromEnd)

\* getLinkElemForPage(page, optLabel): the label span alone when the page is
\* the current one, else an <a> around it.  optLabel is <<>> when not given.
\* The element records the page argument it was built for.
GetLinkElemForPage(this, page, optLabel) ==
  IF IsCurrent(this, page)
  THEN [label |-> IF optLabel # <<>> THEN optLabel ELSE NumToStr(N(page)),
        page |-> page, isLink |-> FALSE, href |-> <<>>]
  ELSE [label |-> IF optLabel # <<>> THEN optLabel ELSE NumToStr(N(page)),
        page |-> page, isLink |-> TRUE,
        href |-> this.indexBaseUrl \o <<"?">>
                 \o ParamsToString(
                      LinkParams(this.urlParams,
                                 JsSub(this.numPages, N(page))))]

\* const currentPage = this.numPages - this.pagesFromEnd
CurrentPage(this) == JsSub(this.numPages, this.pagesFromEnd)

\* if (currentPage > 1): the Prev element
PrevElems(this) ==
  IF JsGt(CurrentPage(this), N(1))
  THEN <<GetLinkElemForPage(this, CurrentPage(this).v - 1, PrevLabel)>>
  ELSE <<>>

\* for (let page = 1; page <= this.numPages; page++)
PageElems(this) ==
  IF this.numPages.nan THEN <<>>
  ELSE [page \in 1..this.numPages.v |-> GetLinkElemForPage(this, page, <<>>)]

\* if (currentPage < this.numPages): the Next element
NextElems(this) ==
  IF JsLt(CurrentPage(this), this.numPages)
  THEN <<GetLinkElemForPage(this, CurrentPage(this).v + 1, NextLabel)>>
  ELSE <<>>

\* getPaginationBar(): the elements after the "Page: " text.
GetPaginationBar(this) == PrevElems(this) \o PageElems(this) \o NextElems(this)

\* Array.prototype.slice(start, end): NaN counts as 0, a negative index is
\* taken from the end, both are clamped to the array.
SliceIndex(len, x) ==
  IF x.nan THEN 0
  ELSE IF x.v < 0 THEN (IF len + x.v > 0 THEN len + x.v ELSE 0)
  ELSE IF x.v < len THEN x.v ELSE len

Slice(arr, start, end) ==
  SubSeq(arr, SliceIndex(Len(arr), start) + 1, SliceIndex(Len(arr), end))

\* const lastIndex = this.posts.length - 1
LastIndex(this) == N(Len(this.posts) - 1)

\* const start = Math.max(0, lastIndex - this.perPage * (1 + this.pagesFromEnd))
WindowStart(this) ==
  MathMax(N(0),
          JsSub(LastIndex(this),
                JsMul(this.perPage, JsAdd(N(1), this.pagesFromEnd))))

\* const end = 1 + lastIndex - this.perPage * this.pagesFromEnd
WindowEnd(this) ==
  JsSub(JsAdd(N(1), LastIndex(this)), JsMul(this.perPage, this.pagesFromEnd))

\* this.posts.slice(start, end)
Window(this) == Slice(this.posts, WindowStart(this), WindowEnd(this))

\* Child nodes of the container.
BarNode(elems) == [tag |-> "bar", elems |-> elems, post |-> 0]

\* postToElem(post): the post's <div>; a post is identified by its position
\* (1-based) in the JSON document.
PostToElem(post) == [tag |-> "post", elems |-> <<>>, post |-> post]

\* displayPosts(): the children of parentElem after the call.
DisplayPosts(this) ==
  IF Not(this.numPages) THEN <<>>
  ELSE <<BarNode(GetPaginationBar(this))>>
       \o [i \in 1..Len(Window(this)) |-> PostToElem(Window(this)[i])]
       \o <<BarNode(GetPaginationBar(this))>>

\* ------------------------------------------------------------------- state
VARIABLES
  href,       \* location.href of the page
  jsonUrl,    \* the container's data-json-url attribute ("" when not set)
  posts,      \* the posts of the JSON document, oldest first
  original,   \* the container's children as the page's HTML gives them
  container,  \* the children of parentElem
  pc,         \* where the page's script is
  fetches,    \* calls of fetch() since the page was loaded
  response,   \* <<>>, or <<the response of fetch>>
  error,      \* <<>>, or <<the error create() threw>>
  view,       \* <<>>, or <<the PostsDisplay constructed>>
  followed    \* <<>>, or <<the link that led to this page, with the state
              \*   of the view that generated it>>

vars ==
  <<href, jsonUrl, posts, original, container, pc, fetches, response, error,
    view, followed>>

PagePath == <<"/", "p">>

Pair(key, value) == [k |-> key, v |-> value]

\* Values of posts_per_page in the address the visitor opens (<<>> as the
\* choice means the parameter is absent).
PerPageChoices ==
  { <<>> } \cup
  { <<Pair(PostsPerPageKey, v)>> :
      v \in { <<>>, <<"0">>, <<"2">>, <<"3">>, <<"-", "2">>, <<"a", "b">>,
              <<"2", "x">> } }

\* Values of posts_pages_from_end in the address the visitor opens; the
\* last choice gives the parameter twice.
PagesFromEndChoices ==
  { <<>> } \cup
  { <<Pair(PostsPagesFromEndKey, v)>> :
      v \in { <<>>, <<"0">>, <<"1">>, <<"2">>, <<"-", "1">>, <<"-", "2">>,
              <<"9">>, <<"a", "b">> } }
  \cup { <<Pair(PostsPagesFromEndKey, <<"1">>),
           Pair(PostsPagesFromEndKey, <<"0">>)>> }

\* Other query parameters of the page.
OtherChoices == { <<>>, <<Pair(<<"t">>, <<"a", " ", "&", "b">>)>> }

FragmentChoices == { <<>>, <<"#", "f">> }

JsonUrlChoices == { "", "feeds/posts.json" }

StaticNode == [tag |-> "static", elems |-> <<>>, post |-> 0]

OriginalChoices == { <<>>, <<StaticNode>> }

PostCounts == 0..MaxPosts

HttpStatuses == {200, 404, 503}

\* response.ok
Ok(status) == status >= 200 /\ status <= 299

UrlOf(params, fragment) ==
  PagePath
  \o (IF params = <<>> THEN <<>> ELSE <<"?">> \o ParamsToString(params))
  \o fragment

Init ==
  /\ \E pp \in PerPageChoices, pfe \in PagesFromEndChoices,
        other \in OtherChoices, frag \in FragmentChoices :
       href = UrlOf(other \o pp \o pfe, frag)
  /\ jsonUrl \in JsonUrlChoices
  /\ \E n \in PostCounts : posts = [i \in 1..n |-> i]
  /\ original \in OriginalChoices
  /\ container = original
  /\ pc = "start"
  /\ fetches = 0
  /\ response = <<>>
  /\ error = <<>>
  /\ view = <<>>
  /\ followed = <<>>

\* const postsUrl = parentElem.dataset.jsonUrl || "posts.json"
PostsUrl == IF jsonUrl # "" THEN jsonUrl ELSE "posts.json"

\* create(): up to the first await, fetch(postsUrl) is called.
CreateFetch ==
  /\ pc = "start"
  /\ pc' = "fetching"
  /\ fetches' = fetches + 1
  /\ UNCHANGED <<href, jsonUrl, posts, original, container, response, error,
                 view, followed>>

\* CreateFetchFailed as it would be if the container were cleared before the
\* response is looked at.
CreateFetchFailedClears ==
  /\ pc = "fetching"
  /\ \E status \in HttpStatuses :
       /\ ~Ok(status)
       /\ response' = <<[url |-> PostsUrl, status |-> status]>>
       /\ error' = <<[kind |-> "fetch", url |-> PostsUrl, status |-> status]>>
  /\ pc' = "failed"
  /\ container' = <<>>
  /\ UNCHANGED <<href, jsonUrl, posts, original, fetches, view, followed>>

\* create(): the response is not ok and the error is thrown; the script
\* ends there.
CreateFetchFailed ==
  /\ pc = "fetching"
  /\ \E status \in HttpStatuses :
       /\ ~Ok(status)
       /\ response' = <<[url |-> PostsUrl, status |-> status]>>
       /\ error' = <<[kind |-> "fetch", url |-> PostsUrl, status |-> status]>>
  /\ pc' = "failed"
  /\ UNCHANGED <<href, jsonUrl, posts, original, container, fetches, view,
                 followed>>

\* create(): the response is ok; response.json() is awaited.
CreateFetchOk ==
  /\ pc = "fetching"
  /\ \E status \in HttpStatuses :
       /\ Ok(status)
       /\ response' = <<[url |-> PostsUrl, status |-> status]>>
  /\ pc' = "parsing"
  /\ UNCHANGED <<href, jsonUrl, posts, original, container, fetches, error,
                 view, followed>>

\* create(): response.json() rejects (the body is not JSON); the rejection
\* propagates.
CreateJsonFailed ==
  /\ pc = "parsing"
  /\ error' = <<[kind |-> "parse", url |-> response[1].url,
                 status |-> response[1].status]>>
  /\ pc' = "failed"
  /\ UNCHANGED <<href, jsonUrl, posts, original, container, fetches, response,
                 view, followed>>

\* create(): the posts are parsed and the PostsDisplay is constructed; the
\* constructor ends with displayPosts().
CreateConstruct ==
  /\ pc = "parsing"
  /\ view' = <<NewPostsDisplay(posts, NewURLSearchParams(LocationSearch(href)),
                               href)>>
  /\ container' = DisplayPosts(view'[1])
  /\ pc' = "shown"
  /\ UNCHANGED <<href, jsonUrl, posts, original, fetches, response, error,
                 followed>>

\* The links of the pagination bars shown (the two bars are clones).
ShownLinks ==
  { e \in UNION { { container[i].elems[j] : j \in 1..Len(container[i].elems) } :
                  i \in 1..Len(container) } : e.isLink }

\* The visitor follows a link of a pagination bar: the browser loads the
\* link's address and the script starts again; nothing in memory survives.
FollowLink ==
  /\ pc = "shown"
  /\ \E e \in ShownLinks :
       /\ href' = e.href
       /\ followed' = <<[page |-> e.page, label |-> e.label,
                         perPage |-> view[1].perPage,
                         numPages |-> view[1].numPages]>>
  /\ container' = original
  /\ pc' = "start"
  /\ fetches' = 0
  /\ response' = <<>>
  /\ error' = <<>>
  /\ view' = <<>>
  /\ UNCHANGED <<jsonUrl, posts, original>>

Next ==
  \/ CreateFetch
  \/ CreateFetchFailed
  \/ CreateFetchOk
  \/ CreateJsonFailed
  \/ CreateConstruct
  \/ FollowLink

Spec == Init /\ [][Next]_vars

\* ------------------------------------------------------------------ claims
Shown == pc = "shown"

This == view[1]

PostNodes == SelectSeq(container, LAMBDA nd : nd.tag = "post")

\* The posts rendered, in the order of their nodes.
RenderedPosts == [i \in 1..Len(PostNodes) |-> PostNodes[i].post]

Bars == SelectSeq(container, LAMBDA nd : nd.tag = "bar")

BarRendered == Shown /\ Bars # <<>>

Elems(bar) == { bar.elems[j] : j \in 1..Len(bar.elems) }

PageNumberElems(bar) == { e \in Elems(bar) : e.label \notin {PrevLabel, NextLabel} }

PrevOf(bar) == { e \in Elems(bar) : e.label = PrevLabel }

NextOf(bar) == { e \in Elems(bar) : e.label = NextLabel }

ValidPerPage == ~This.perPage.nan /\ This.perPage.v >= 1

ValidPagesFromEnd ==
  /\ ~This.pagesFromEnd.nan
  /\ ~This.numPages.nan
  /\ This.pagesFromEnd.v >= 0
  /\ This.pagesFromEnd.v <= This.numPages.v - 1

\* The query parameters a link's address carries.
ParamsOfLink(e) == NewURLSearchParams(LocationSearch(e.href))

IndicesOf(seq) == { seq[i] : i \in 1..Len(seq) }

\* The window displayPosts computes when the view is `pagesFromEnd` pages
\* from the end.
WindowAt(pagesFromEnd) == Window([This EXCEPT !.pagesFromEnd = N(pagesFromEnd)])

\* C1: for perPage p > 0 and n posts, numPages = ceil(n/p) and the windows of
\* displayPosts for pagesFromEnd = 0 .. numPages-1 partition the posts: every
\* post lies in exactly one page's window.
C1_WindowsPartitionPosts ==
  (Shown /\ ValidPerPage) =>
    /\ This.numPages = N((Len(posts) + This.perPage.v - 1) \div This.perPage.v)
    /\ \A post \in IndicesOf(posts) :
         Cardinality({ k \in 0..(This.numPages.v - 1) :
                         post \in IndicesOf(WindowAt(k)) }) = 1

\* C2: after construction pagesFromEnd is an integer in
\* [0, max(0, numPages-1)] whatever the posts_pages_from_end parameter is
\* (stated here for the views whose perPage is a positive integer).
C2_PagesFromEndClamped ==
  (Shown /\ ValidPerPage) =>
    /\ ~This.pagesFromEnd.nan
    /\ This.pagesFromEnd.v >= 0
    /\ This.pagesFromEnd.v <=
         (IF This.numPages.v - 1 > 0 THEN This.numPages.v - 1 ELSE 0)

\* C3: for perPage > 0 and pagesFromEnd in [0, numPages-1] the posts rendered
\* are posts[start:end] with end = count - perPage*pagesFromEnd and
\* start = max(0, end - perPage), in source order; no page shows more than
\* perPage posts.
C3_RenderedWindow ==
  (Shown /\ ValidPerPage /\ ValidPagesFromEnd) =>
    LET end == Len(posts) - This.perPage.v * This.pagesFromEnd.v
        start == IF end - This.perPage.v > 0 THEN end - This.perPage.v ELSE 0
    IN /\ RenderedPosts = SubSeq(posts, start + 1, end)
       /\ Len(RenderedPosts) <= This.perPage.v

\* The posts_per_page parameter as the page's address gives it.
RawPerPage == ParamsGet(NewURLSearchParams(LocationSearch(href)), PostsPerPageKey)

\* C4: perPage is a positive integer after construction: max(1, parsed
\* posts_per_page), and 20 when the parameter is absent or non-numeric.
C4_PerPagePositive ==
  Shown =>
    This.perPage =
      (IF ~RawPerPage.found \/ ParseInt(RawPerPage.value).nan
       THEN N(DefaultPerPage)
       ELSE MathMax(N(1), ParseInt(RawPerPage.value)))

\* C5: in every rendered pagination bar the entry of page p among the page
\* numbers 1..numPages is a bare label exactly when numPages - p is the
\* current pagesFromEnd and a link otherwise, and exactly one page number is
\* a bare label (stated for the views whose perPage is a positive integer).
C5_ExactlyOneCurrentLabel ==
  (BarRendered /\ ValidPerPage) =>
    \A i \in 1..Len(Bars) :
      /\ { e.page : e \in PageNumberElems(Bars[i]) } = 1..This.numPages.v
      /\ \A e \in PageNumberElems(Bars[i]) :
           (~e.isLink) <=>
             StrictEq(JsSub(This.numPages, N(e.page)), This.pagesFromEnd)
      /\ Cardinality({ e \in PageNumberElems(Bars[i]) : ~e.isLink }) = 1

\* C6: the bar has a Prev entry only when currentPage > 1 and a Next entry
\* only when currentPage < numPages; Prev targets currentPage-1 and Next
\* currentPage+1, and the target is an existing page in 1..numPages, whatever
\* the query parameters (stated for the views whose perPage is a positive
\* integer).
C6_PrevNextTargetExistingPages ==
  (BarRendered /\ ValidPerPage) =>
    \A i \in 1..Len(Bars) :
      /\ \A e \in PrevOf(Bars[i]) :
           /\ JsGt(CurrentPage(This), N(1))
           /\ e.page = CurrentPage(This).v - 1
           /\ e.page \in 1..This.numPages.v
      /\ \A e \in NextOf(Bars[i]) :
           /\ JsLt(CurrentPage(This), This.numPages)
           /\ e.page = CurrentPage(This).v + 1
           /\ e.page \in 1..This.numPages.v

\* C7: a generated link for page p carries every current query parameter
\* with its value unchanged, except posts_pages_from_end, which it carries
\* once, set to numPages - p; the view's own urlParams are still those of the
\* page's address.
C7_LinksKeepOtherParams ==
  Shown =>
    /\ This.urlParams = NewURLSearchParams(LocationSearch(href))
    /\ \A e \in ShownLinks :
         LET carried == ParamsOfLink(e)
         IN /\ DropKey(carried, PostsPagesFromEndKey)
                 = DropKey(This.urlParams, PostsPagesFromEndKey)
            /\ ParamsGet(carried, PostsPagesFromEndKey).value
                 = NumToStr(JsSub(This.numPages, N(e.page)))
            /\ Cardinality({ j \in 1..Len(carried) :
                               carried[j].k = PostsPagesFromEndKey }) = 1
            /\ ParamsGet(carried, PostsPerPageKey)
                 = ParamsGet(This.urlParams, PostsPerPageKey)

\* C7 witness: links are shown on a page whose address has posts_per_page,
\* a repeated posts_pages_from_end and another parameter whose value needs
\* encoding.
C7_Witness ==
  /\ Shown
  /\ ShownLinks # {}
  /\ ParamsHas(This.urlParams, PostsPerPageKey)
  /\ ParamsGet(This.urlParams, <<"t">>).value = <<"a", " ", "&", "b">>
  /\ Cardinality({ j \in 1..Len(This.urlParams) :
                     This.urlParams[j].k = PostsPagesFromEndKey }) = 2

\* The posts_pages_from_end parameter as the page's address gives it.
RawPagesFromEnd ==
  ParamsGet(NewURLSearchParams(LocationSearch(href)), PostsPagesFromEndKey)

\* C8: with posts_pages_from_end absent and at least one post,
\* pagesFromEnd = numPages - 1, the current page is 1 and the posts rendered
\* are posts[0 : count - perPage*(numPages-1)]; an explicit 0 is not absent
\* and selects the most recent page.
C8_DefaultIsOldestPage ==
  /\ (Shown /\ ~RawPagesFromEnd.found /\ Len(posts) >= 1) =>
       /\ ~This.numPages.nan /\ ~This.perPage.nan
       /\ This.pagesFromEnd = JsSub(This.numPages, N(1))
       /\ CurrentPage(This) = N(1)
       /\ RenderedPosts =
            SubSeq(posts, 1,
                   Len(posts) - This.perPage.v * (This.numPages.v - 1))
  /\ (Shown /\ RawPagesFromEnd.found /\ RawPagesFromEnd.value = <<"0">>) =>
       /\ This.pagesFromEnd = N(0)
       /\ CurrentPage(This) = This.numPages

\* C9: when the fetch returns a non-success status, create fails with an
\* error naming the URL and the status, no PostsDisplay is constructed, the
\* fetch is not retried and the container is left as it was; the container
\* changes only after a successful fetch and parse.
C9_FetchFailureLeavesContainer ==
  /\ fetches <= 1
  /\ (pc = "failed" /\ error[1].kind = "fetch") =>
       /\ error[1].url = PostsUrl
       /\ error[1].status = response[1].status
       /\ ~Ok(error[1].status)
       /\ view = <<>>
       /\ fetches = 1
       /\ container = original
  /\ (response # <<>> /\ ~Ok(response[1].status)) => pc = "failed"
  /\ container # original =>
       /\ Shown
       /\ view # <<>>
       /\ Ok(response[1].status)
       /\ error = <<>>

\* C9 witness: create has failed on a non-success status in a page whose
\* container had content.
C9_Witness ==
  /\ pc = "failed"
  /\ error[1].kind = "fetch"
  /\ original # <<>>

\* C10: from initial parameters with perPage > 0 and a non-empty post
\* collection, after following any link of the pagination bar the reloaded
\* view has pagesFromEnd in [0, numPages-1], its current page is the page the
\* link targeted, and perPage and numPages are as before.
C10_NavigationClosed ==
  (Shown /\ followed # <<>> /\ Len(posts) >= 1
     /\ JsGt(followed[1].perPage, N(0))) =>
    /\ ValidPagesFromEnd
    /\ CurrentPage(This) = N(followed[1].page)
    /\ This.perPage = followed[1].perPage
    /\ This.numPages = followed[1].numPages

====
